---- MODULE Spec2Model ----
(***************************************************************************)
(* StreamCrawler/scraper.py: the stream-resolution client.                 *)
(*                                                                         *)
(* A Python str is a sequence of Unicode code points (naturals); a bytes   *)
(* object is a sequence of naturals in 0..255.  An optional value (None or *)
(* a value) is a set with at most one element: None is {} and v is {v}.    *)
(* A function that may raise returns [raised |-> BOOLEAN, val |-> ...].    *)
(***************************************************************************)
EXTENDS Naturals, Sequences, FiniteSets, TLC

VARIABLES
    fn_in,      \* arguments of the build_fetch_body call under test
    fn_out,     \* its outcome, None before the call
    call,       \* the activation record of the get_stream_url call
    posts,      \* the request bodies POSTed to EMBED_API so far, in order
    batch_pc,   \* position of scrape_all_events
    events,     \* the list get_live_events returned
    idx,        \* index of the event the for loop is at
    embed_url,  \* what get_embed_url returned for that event (optional)
    results,    \* the results list of scrape_all_events
    workers     \* the activation records of the get_stream_url calls that run
                \* concurrently, one per worker

vars ==
    <<fn_in, fn_out, call, posts, batch_pc, events, idx, embed_url, results,
      workers>>

None == {}
Some(v) == {v}
Val(o) == CHOOSE v \in o : TRUE

(***************************************************************************)
(* Bounds of the model.                                                    *)
(***************************************************************************)
\* longest short field value given to build_fetch_body (code points)
MaxShort == 2
\* longest URL tail appended to a URL prefix (code points)
MaxTail == 5
\* most pieces a response body is made of
MaxPieces == 4
\* most events get_live_events returns
MaxEvents == 2
\* the workers that call get_stream_url concurrently
MaxWorkers == 2

\* the largest value bytes([...]) accepts for one element
MaxByte == 255

(***************************************************************************)
(* Text helpers.                                                           *)
(***************************************************************************)
\* all sequences over S of length at most n
SeqsUpTo(S, n) == UNION {[1..k -> S] : k \in 0..n}

\* the string made of n copies of the code point c
Rep(c, n) == [i \in 1..n |-> c]

\* str.encode('utf-8') of one code point (no surrogates)
Utf8Char(c) ==
    IF c < 128 THEN <<c>>
    ELSE IF c < 2048 THEN <<192 + (c \div 64), 128 + (c % 64)>>
    ELSE IF c < 65536 THEN
        <<224 + (c \div 4096), 128 + ((c \div 64) % 64), 128 + (c % 64)>>
    ELSE <<240 + (c \div 262144), 128 + ((c \div 4096) % 64),
           128 + ((c \div 64) % 64), 128 + (c % 64)>>

\* str.encode('utf-8'): the encodings of the code points, concatenated
RECURSIVE Utf8Encode(_)
Utf8Encode(s) ==
    IF Len(s) = 0 THEN <<>>
    ELSE IF Len(s) = 1 THEN Utf8Char(s[1])
    ELSE LET h == Len(s) \div 2
         IN  Utf8Encode(SubSeq(s, 1, h)) \o Utf8Encode(SubSeq(s, h + 1, Len(s)))

IsCont(b) == b >= 128 /\ b <= 191

\* bytes.decode('utf-8', errors='replace') from position i on: a well-formed
\* sequence gives its code point, and each maximal ill-formed prefix gives
\* one U+FFFD (65533).
RECURSIVE Utf8DecodeFrom(_, _)
Utf8DecodeFrom(b, i) ==
    IF i > Len(b) THEN <<>>
    ELSE
    LET b1 == b[i]
        has(k) == i + k <= Len(b)
        at(k) == b[i + k]
        \* the range the second byte must lie in, by lead byte
        lo2 == IF b1 = 224 THEN 160 ELSE IF b1 = 240 THEN 144 ELSE 128
        hi2 == IF b1 = 237 THEN 159 ELSE IF b1 = 244 THEN 143 ELSE 191
        ok2 == has(1) /\ at(1) >= lo2 /\ at(1) <= hi2
        ok3 == ok2 /\ has(2) /\ IsCont(at(2))
        ok4 == ok3 /\ has(3) /\ IsCont(at(3))
    IN  IF b1 < 128 THEN <<b1>> \o Utf8DecodeFrom(b, i + 1)
        ELSE IF b1 >= 194 /\ b1 <= 223 THEN
            IF ok2 THEN <<(b1 - 192) * 64 + (at(1) - 128)>>
                        \o Utf8DecodeFrom(b, i + 2)
            ELSE <<65533>> \o Utf8DecodeFrom(b, i + 1)
        ELSE IF b1 >= 224 /\ b1 <= 239 THEN
            IF ok3 THEN <<(b1 - 224) * 4096 + (at(1) - 128) * 64 + (at(2) - 128)>>
                        \o Utf8DecodeFrom(b, i + 3)
            ELSE IF ok2 THEN <<65533>> \o Utf8DecodeFrom(b, i + 2)
            ELSE <<65533>> \o Utf8DecodeFrom(b, i + 1)
        ELSE IF b1 >= 240 /\ b1 <= 244 THEN
            IF ok4 THEN <<(b1 - 240) * 262144 + (at(1) - 128) * 4096
                          + (at(2) - 128) * 64 + (at(3) - 128)>>
                        \o Utf8DecodeFrom(b, i + 4)
            ELSE IF ok3 THEN <<65533>> \o Utf8DecodeFrom(b, i + 3)
            ELSE IF ok2 THEN <<65533>> \o Utf8DecodeFrom(b, i + 2)
            ELSE <<65533>> \o Utf8DecodeFrom(b, i + 1)
        ELSE <<65533>> \o Utf8DecodeFrom(b, i + 1)

\* bytes.decode('utf-8', errors='replace').  A byte that is no continuation
\* byte always starts a new sequence, so a long input is decoded in two parts
\* cut at such a byte.
RECURSIVE Utf8Decode(_)
Utf8Decode(b) ==
    LET h == (Len(b) \div 2) + 1
        cuts == {j \in 2..Len(b) : ~IsCont(b[j])}
        up == {j \in cuts : j >= h}
        j == IF up # {} THEN CHOOSE x \in up : \A y \in up : x <= y
             ELSE CHOOSE x \in cuts : \A y \in cuts : y <= x
    IN  IF Len(b) <= 8 \/ cuts = {} THEN Utf8DecodeFrom(b, 1)
        ELSE Utf8Decode(SubSeq(b, 1, j - 1)) \o Utf8Decode(SubSeq(b, j, Len(b)))

(***************************************************************************)
(* The wire encoder.                                                       *)
(***************************************************************************)
\* a variant that keeps the low 8 bits of each element instead of raising
BytesOfWrap(list) ==
    [raised |-> FALSE, val |-> [i \in 1..Len(list) |-> list[i] % (MaxByte + 1)]]

\* bytes(list): ValueError unless every element is in range(0, 256)
BytesOf(list) ==
    IF \A i \in 1..Len(list) : list[i] <= MaxByte
    THEN [raised |-> FALSE, val |-> list]
    ELSE [raised |-> TRUE, val |-> <<>>]

\* a variant with wire type 0 (varint) in the tag: field_num << 3
TagWireType0(field_num) == field_num * 8

\* (field_num << 3) | 2
Tag(field_num) == field_num * 8 + 2

\* a variant whose length byte counts code points, not UTF-8 bytes
_encode_proto_string_chars(field_num, value) ==
    LET head == BytesOf(<<Tag(field_num), Len(value)>>)
    IN  IF head.raised THEN head
        ELSE [raised |-> FALSE, val |-> head.val \o Utf8Encode(value)]

_encode_proto_string(field_num, value) ==
    LET encoded == Utf8Encode(value)
        head == BytesOf(<<Tag(field_num), Len(encoded)>>)
    IN  IF head.raised THEN head
        ELSE [raised |-> FALSE, val |-> head.val \o encoded]

build_fetch_body(server, slug, stream_num) ==
    LET f1 == _encode_proto_string(1, server)
        f2 == _encode_proto_string(2, slug)
        f3 == _encode_proto_string(3, stream_num)
    IN  IF f1.raised \/ f2.raised \/ f3.raised
        THEN [raised |-> TRUE, val |-> <<>>]
        ELSE [raised |-> FALSE, val |-> f1.val \o f2.val \o f3.val]

(***************************************************************************)
(* Python's re, for the two patterns the program uses.  A pattern is a     *)
(* sequence of items: one character of a class, an optional character      *)
(* (x?), a greedy repetition (x+), a group's opening or closing bracket,   *)
(* or the anchor $.  The matcher backtracks the way re does, so the match  *)
(* it returns is the first in re's priority order.                         *)
(***************************************************************************)
LitC(c) == [k |-> "lit", c |-> c]
NotSlash == [k |-> "notslash", c |-> 0]
Dot == [k |-> "dot", c |-> 0]
Digit == [k |-> "digit", c |-> 0]

One(cls) == [t |-> "one", cls |-> cls, g |-> 0]
Opt(cls) == [t |-> "opt", cls |-> cls, g |-> 0]
Plus(cls) == [t |-> "plus", cls |-> cls, g |-> 0]
Open(g) == [t |-> "open", cls |-> Dot, g |-> g]
Close(g) == [t |-> "close", cls |-> Dot, g |-> g]
Eol == [t |-> "eol", cls |-> Dot, g |-> 0]
Lit(s) == [i \in 1..Len(s) |-> One(LitC(s[i]))]

\* \d on the code points of the model's alphabets (the ASCII digits)
IsDecimalDigit(c) == c >= 48 /\ c <= 57

InClass(cls, c) ==
    CASE cls.k = "lit" -> c = cls.c
      [] cls.k = "notslash" -> c # 47               \* [^/]
      [] cls.k = "dot" -> c # 10                    \* . without DOTALL
      [] cls.k = "digit" -> IsDecimalDigit(c)       \* \d

\* $ without MULTILINE: at the end of the string, or just before a newline
\* that is the last character of the string
AtEol(s, pos) == pos = Len(s) + 1 \/ (pos = Len(s) /\ s[pos] = 10)

\* the length of the longest run of characters of cls starting at pos
Run(cls, s, pos) ==
    LET stops == {j \in pos..(Len(s) + 1) : j > Len(s) \/ ~InClass(cls, s[j])}
    IN  (CHOOSE j \in stops : \A i \in stops : j <= i) - pos

NoCaps == [g \in 1..3 |-> [from |-> 0, to |-> 0]]
Fail == [ok |-> FALSE, caps |-> NoCaps, end |-> 0]

RECURSIVE MatchFrom(_, _, _, _, _)
\* items k.. of re against s from pos on, with the groups captured so far
MatchFrom(re, k, s, pos, caps) ==
    IF k > Len(re) THEN [ok |-> TRUE, caps |-> caps, end |-> pos]
    ELSE
    LET it == re[k]
        here == pos <= Len(s) /\ InClass(it.cls, s[pos])
        rest(p) == MatchFrom(re, k + 1, s, p, caps)
    IN  CASE it.t = "one" -> IF here THEN rest(pos + 1) ELSE Fail
          [] it.t = "opt" ->
                \* greedy: with the character first, then without it
                LET with == IF here THEN rest(pos + 1) ELSE Fail
                IN  IF with.ok THEN with ELSE rest(pos)
          [] it.t = "plus" ->
                \* greedy: the longest repetition the rest of the pattern
                \* matches after, which backtracking tries first
                LET tries == {[n |-> n, r |-> rest(pos + n)] :
                                n \in 1..Run(it.cls, s, pos)}
                    good == {c \in tries : c.r.ok}
                IN  IF good = {} THEN Fail
                    ELSE (CHOOSE c \in good : \A d \in good : d.n <= c.n).r
          [] it.t = "open" ->
                MatchFrom(re, k + 1, s, pos, [caps EXCEPT ![it.g].from = pos])
          [] it.t = "close" ->
                MatchFrom(re, k + 1, s, pos, [caps EXCEPT ![it.g].to = pos])
          [] it.t = "eol" -> IF AtEol(s, pos) THEN rest(pos) ELSE Fail

\* re.match(re, s): anchored at the start of s
ReMatch(re, s) == MatchFrom(re, 1, s, 1, NoCaps)

\* re.search(re, s): the match at the leftmost position that has one
RECURSIVE SearchFrom(_, _, _)
SearchFrom(re, s, start) ==
    IF start > Len(s) + 1 THEN [ok |-> FALSE, from |-> 0, to |-> 0]
    ELSE LET r == MatchFrom(re, 1, s, start, NoCaps)
         IN  IF r.ok THEN [ok |-> TRUE, from |-> start, to |-> r.end]
             ELSE SearchFrom(re, s, start + 1)

ReSearch(re, s) == SearchFrom(re, s, 1)

\* m.group(g)
Group(m, s, g) == SubSeq(s, m.caps[g].from, m.caps[g].to - 1)

(***************************************************************************)
(* parse_embed_url                                                         *)
(***************************************************************************)
\* r'https?://[^/]+/embed/([^/]+)/(.+)/(\d+)$'
EmbedRe ==
    Lit(<<104, 116, 116, 112>>) \o <<Opt(LitC(115))>>       \* http s?
    \o Lit(<<58, 47, 47>>) \o <<Plus(NotSlash)>>             \* :// [^/]+
    \o Lit(<<47, 101, 109, 98, 101, 100, 47>>)               \* /embed/
    \o <<Open(1), Plus(NotSlash), Close(1)>> \o Lit(<<47>>)  \* ([^/]+)/
    \o <<Open(2), Plus(Dot), Close(2)>> \o Lit(<<47>>)       \* (.+)/
    \o <<Open(3), Plus(Digit), Close(3), Eol>>               \* (\d+)$

\* a variant whose slug is one path segment: r'.../embed/([^/]+)/([^/]+)/(\d+)$'
parse_embed_url_segment(url) ==
    LET re == [i \in 1..Len(EmbedRe) |->
                 IF EmbedRe[i] = Plus(Dot) THEN Plus(NotSlash) ELSE EmbedRe[i]]
        m == ReMatch(re, url)
    IN  IF ~m.ok THEN None
        ELSE Some(<<Group(m, url, 1), Group(m, url, 2), Group(m, url, 3)>>)

\* None, or the triple (server, slug, stream_num)
parse_embed_url(url) ==
    LET m == ReMatch(EmbedRe, url)
    IN  IF ~m.ok THEN None
        ELSE Some(<<Group(m, url, 1), Group(m, url, 2), Group(m, url, 3)>>)

\* r'lb\d+'
LbRe == Lit(<<108, 98>>) \o <<Plus(Digit)>>

(***************************************************************************)
(* get_stream_url, one step per statement group.  A call is a record: its  *)
(* position pc, its argument and locals, the exchange it made (resp), what *)
(* it read of the response (examined), and what it returned (ret) or the   *)
(* exception that left it (exc).                                           *)
(***************************************************************************)
\* the dict {}: .get(key) of a key that is not set is None
EmptyDict == [goat |-> None, lb |-> None, m3u8 |-> None, error |-> None]

IdleCall ==
    [pc |-> "idle", embed_url |-> <<>>, parsed |-> None, body |-> <<>>,
     resp |-> None, goat_token |-> None, lb_server |-> None,
     examined |-> {}, ret |-> None, exc |-> None]

NewCall(url) == [IdleCall EXCEPT !.pc = "parse", !.embed_url = url]

\* parsed = parse_embed_url(embed_url); if not parsed: return {}
DoParse(r) ==
    LET parsed == parse_embed_url(r.embed_url)
    IN  IF parsed = None
        THEN [r EXCEPT !.pc = "returned", !.ret = Some(EmptyDict)]
        ELSE [r EXCEPT !.pc = "build", !.parsed = parsed]

\* body = build_fetch_body(server, slug, stream_num), outside any try
DoBuild(r) ==
    LET t == Val(r.parsed)
        b == build_fetch_body(t[1], t[2], t[3])
    IN  IF b.raised THEN [r EXCEPT !.pc = "raised", !.exc = Some("ValueError")]
        ELSE [r EXCEPT !.pc = "post", !.body = b.val]

\* what one requests.post call can end in: a transport exception, or a
\* response with a status, an optional goat header and a body
TransportFailure(e) == [exc |-> Some(e), status |-> 0, goat |-> None, content |-> <<>>]
Response(st, goat, content) ==
    [exc |-> None, status |-> st, goat |-> goat, content |-> content]

\* Response.raise_for_status raises HTTPError for a 4xx or a 5xx status
raise_for_status(status) == status >= 400 /\ status < 600

\* str(e) of the HTTPError
HTTPErrorMsg(status) ==
    ToString(status) \o (IF status < 500 THEN " Client Error" ELSE " Server Error")

\* try: resp = requests.post(...); resp.raise_for_status()
\* except requests.RequestException as e: return {'error': str(e)}
DoPost(r, out) ==
    IF out.exc # None
    THEN [r EXCEPT !.pc = "returned", !.resp = Some(out),
                   !.ret = Some([EmptyDict EXCEPT !.error = out.exc])]
    ELSE IF raise_for_status(out.status)
    THEN [r EXCEPT !.pc = "returned", !.resp = Some(out),
                   !.ret = Some([EmptyDict EXCEPT
                                 !.error = Some(HTTPErrorMsg(out.status))])]
    ELSE [r EXCEPT !.pc = "token", !.resp = Some(out)]

\* the request the call sends
PostOf(r) == [data |-> r.body, referer |-> r.embed_url]

\* a variant that sends the request again when the exchange failed
PostLogRetry(log, r, out) ==
    IF out.exc # None \/ out.status >= 400
    THEN Append(Append(log, PostOf(r)), PostOf(r))
    ELSE Append(log, PostOf(r))

\* the requests sent once the call made its exchange: requests.post is called
\* once, whatever it ends in
PostLog(log, r, out) == Append(log, PostOf(r))

\* a variant that tests the header with "is None", letting an empty one pass
DoTokenIsNone(r) ==
    LET goat_token == Val(r.resp).goat
    IN  IF goat_token = None
        THEN [r EXCEPT !.pc = "returned", !.examined = @ \cup {"headers"},
                       !.ret = Some([EmptyDict EXCEPT
                                     !.error = Some("No goat header in response")])]
        ELSE [r EXCEPT !.pc = "lb", !.examined = @ \cup {"headers"},
                       !.goat_token = goat_token]

\* goat_token = resp.headers.get('goat'); if not goat_token: return {...}
DoToken(r) ==
    LET goat_token == Val(r.resp).goat
    IN  IF goat_token = None \/ goat_token = Some(<<>>)
        THEN [r EXCEPT !.pc = "returned", !.examined = @ \cup {"headers"},
                       !.ret = Some([EmptyDict EXCEPT
                                     !.error = Some("No goat header in response")])]
        ELSE [r EXCEPT !.pc = "lb", !.examined = @ \cup {"headers"},
                       !.goat_token = goat_token]

\* 'lb2', the fallback
LbFallback == <<108, 98, 50>>

\* a variant whose pattern is r'lb\d': one digit only
LbServerOneDigit(body_str) ==
    LET lb_match == ReSearch(Lit(<<108, 98>>) \o <<One(Digit)>>, body_str)
    IN  IF lb_match.ok THEN SubSeq(body_str, lb_match.from, lb_match.to - 1)
        ELSE LbFallback

\* lb_match = re.search(r'lb\d+', body_str)
\* lb_server = lb_match.group(0) if lb_match else 'lb2'
LbServer(body_str) ==
    LET lb_match == ReSearch(LbRe, body_str)
    IN  IF lb_match.ok THEN SubSeq(body_str, lb_match.from, lb_match.to - 1)
        ELSE LbFallback

\* a variant with server and slug in each other's place
M3u8Swapped(lb_server, goat_token, server, slug, stream_num) ==
    <<104, 116, 116, 112, 115, 58, 47, 47>> \o lb_server
    \o <<46, 115, 116, 114, 109, 100, 46, 116, 111, 112,
         47, 115, 101, 99, 117, 114, 101, 47>> \o goat_token
    \o <<47>> \o slug
    \o <<47, 115, 116, 114, 101, 97, 109, 47>> \o server
    \o <<47>> \o stream_num
    \o <<47, 112, 108, 97, 121, 108, 105, 115, 116, 46, 109, 51, 117, 56>>

\* f"https://{lb_server}.strmd.top/secure/{goat_token}"
\* f"/{server}/stream/{slug}/{stream_num}/playlist.m3u8"
M3u8(lb_server, goat_token, server, slug, stream_num) ==
    <<104, 116, 116, 112, 115, 58, 47, 47>> \o lb_server                \* https://
    \o <<46, 115, 116, 114, 109, 100, 46, 116, 111, 112,
         47, 115, 101, 99, 117, 114, 101, 47>> \o goat_token            \* .strmd.top/secure/
    \o <<47>> \o server
    \o <<47, 115, 116, 114, 101, 97, 109, 47>> \o slug                  \* /stream/
    \o <<47>> \o stream_num
    \o <<47, 112, 108, 97, 121, 108, 105, 115, 116, 46, 109, 51, 117, 56>> \* /playlist.m3u8

\* body_str = resp.content.decode('utf-8', errors='replace') ... return {...}
DoLb(r) ==
    LET body_str == Utf8Decode(Val(r.resp).content)
        lb_server == LbServer(body_str)
        t == Val(r.parsed)
        m3u8 == M3u8(lb_server, Val(r.goat_token), t[1], t[2], t[3])
    IN  [r EXCEPT !.pc = "returned", !.examined = @ \cup {"content"},
                  !.lb_server = Some(lb_server),
                  !.ret = Some([goat |-> r.goat_token, lb |-> Some(lb_server),
                                m3u8 |-> Some(m3u8), error |-> None])]

(***************************************************************************)
(* Concurrent calls of get_stream_url.  Every name the function assigns    *)
(* (parsed, server, slug, stream_num, body, headers, resp, goat_token,     *)
(* body_str, lb_match, lb_server, m3u8) is a local of the call: there is   *)
(* no global statement, and the module-level BASE_URL and EMBED_API are    *)
(* only read.  Each worker therefore has a record of its own, and a step   *)
(* of a worker reads and writes that record alone.                         *)
(***************************************************************************)
\* a variant that keeps the token in a module-level variable, assigned by
\* the exchange of every call: the step of worker w finds there the header
\* of the highest-numbered worker that has made its exchange
TokenStepGlobal(ws, w) ==
    LET done == {v \in DOMAIN ws : ws[v].resp # None}
        last == CHOOSE v \in done : \A u \in done : u <= v
    IN  [DoToken([ws[w] EXCEPT !.resp = ws[last].resp]) EXCEPT !.resp = ws[w].resp]

\* the record of worker w after goat_token = resp.headers.get('goat') and
\* the test on it: resp and goat_token are its own locals
TokenStep(ws, w) == DoToken(ws[w])

(***************************************************************************)
(* scrape_all_events: the for loop over the harvested events.              *)
(***************************************************************************)
\* the events get_live_events returns carry distinct hrefs (the page script
\* skips an href it has processed); an event is modelled by its href alone
EventList(n) == [i \in 1..n |-> [href |-> i]]

\* the record appended when get_embed_url found nothing
NoEmbedRecord(event) ==
    [href |-> event.href, embed_url |-> None, stream |-> None,
     error |-> Some("No embed found")]

\* the record appended after get_stream_url returned stream_data
StreamRecord(event, url, stream_data) ==
    [href |-> event.href, embed_url |-> Some(url),
     stream |-> stream_data.m3u8, error |-> stream_data.error]

(***************************************************************************)
(* The inputs the model draws from.                                        *)
(***************************************************************************)
\* field values: every string of at most MaxShort code points over a (1
\* byte in UTF-8) and e-acute (2 bytes), and strings whose encodings are
\* MaxByte - 1, MaxByte, and MaxByte + 1 or more bytes long
FieldPool ==
    SeqsUpTo({97, 233}, MaxShort)
    \cup {Rep(97, MaxByte - 1), Rep(97, MaxByte), Rep(97, MaxByte + 1),
          Rep(233, MaxByte \div 2) \o <<97>>, Rep(233, (MaxByte + 1) \div 2),
          Rep(8364, MaxByte \div 3), Rep(8364, (MaxByte \div 3) + 1)}

\* embed URLs: a prefix followed by every tail of at most MaxTail code
\* points over a, /, 1 and newline
UrlPrefixes ==
    {<<104, 116, 116, 112, 115, 58, 47, 47, 104, 47, 101, 109, 98, 101, 100, 47>>,
        \* https://h/embed/
     <<104, 116, 116, 112, 58, 47, 47, 104, 47, 101, 109, 98, 101, 100, 47, 97, 47>>,
        \* http://h/embed/a/
     <<102, 116, 112, 58, 47, 47, 104, 47, 101, 109, 98, 101, 100, 47, 97, 47>>,
        \* ftp://h/embed/a/
     <<104, 116, 116, 112, 115, 58, 47, 47, 104, 47, 110, 111, 116, 45,
       101, 109, 98, 101, 100, 47>>,
        \* https://h/not-embed/
     <<104, 116, 116, 112, 115, 58, 47, 47, 47, 101, 109, 98, 101, 100, 47, 97, 47>>,
        \* https:///embed/a/
     <<120, 104, 116, 116, 112, 58, 47, 47, 104, 47, 101, 109, 98, 101, 100, 47, 97, 47>>}
        \* xhttp://h/embed/a/
TailChars == {97, 47, 49, 10}
BroadUrls == {p \o t : p \in UrlPrefixes, t \in SeqsUpTo(TailChars, MaxTail)}

\* https://h/embed/a/b/1
GoodUrl ==
    <<104, 116, 116, 112, 115, 58, 47, 47, 104, 47, 101, 109, 98, 101, 100, 47,
      97, 47, 98, 47, 49>>
\* https://h/not-embed/x/1
MalformedUrl ==
    <<104, 116, 116, 112, 115, 58, 47, 47, 104, 47, 110, 111, 116, 45,
      101, 109, 98, 101, 100, 47, 120, 47, 49>>
\* https://h/embed/a/<MaxByte + 1 times a>/1
OverflowUrl ==
    <<104, 116, 116, 112, 115, 58, 47, 47, 104, 47, 101, 109, 98, 101, 100, 47,
      97, 47>> \o Rep(97, MaxByte + 1) \o <<47, 49>>

\* https://h/embed/e/s/7, the URL whose call is answered with every body
ProbeUrl ==
    <<104, 116, 116, 112, 115, 58, 47, 47, 104, 47, 101, 109, 98, 101, 100, 47,
      101, 47, 115, 47, 55>>

\* response bodies: at most MaxPieces pieces out of lb, l, 1, 2, x and the
\* byte 0xFF (which is not UTF-8)
RECURSIVE Concat(_)
Concat(ss) == IF ss = <<>> THEN <<>> ELSE Head(ss) \o Concat(Tail(ss))
BodyPieces == {<<108, 98>>, <<108>>, <<49>>, <<50>>, <<120>>, <<255>>}
BroadBodies == {Concat(ps) : ps \in SeqsUpTo(BodyPieces, MaxPieces)}
\* the empty body, and lb1
SmallBodies == {<<>>, <<108, 98, 49>>}

\* the goat header: absent, empty, or the token t
Tokens == {None, Some(<<>>), Some(<<116>>)}
Statuses == {200, 304, 404, 503}

\* what the exchange of a call on url may end in; the one URL ProbeUrl is
\* answered with every body of BroadBodies as well
Outcomes(url) ==
    {TransportFailure(e) : e \in {"ConnectionError", "Timeout"}}
    \cup {Response(st, goat, b) : st \in Statuses, goat \in Tokens, b \in SmallBodies}
    \cup (IF url = ProbeUrl
          THEN {Response(st, Some(<<116>>), b) : st \in {200}, b \in BroadBodies}
          ELSE {})

\* what get_embed_url may return: None, or an iframe src
BatchUrls == {GoodUrl, MalformedUrl, OverflowUrl}

\* the embed URLs the concurrent workers are given
WorkerUrls == {GoodUrl, ProbeUrl, MalformedUrl, OverflowUrl}

\* what the exchange of a worker may end in: a timeout, no goat header, the
\* token t with lb1 in the body, the token u with an empty body, a 404
WorkerOutcomes ==
    {TransportFailure("Timeout"),
     Response(200, None, <<>>),
     Response(200, Some(<<116>>), <<108, 98, 49>>),
     Response(200, Some(<<117>>), <<>>),
     Response(404, Some(<<116>>), <<>>)}

(***************************************************************************)
(* Actions.                                                                *)
(***************************************************************************)
batch_vars == <<batch_pc, events, idx, embed_url, results>>
fn_vars == <<fn_in, fn_out>>

\* the call under test of build_fetch_body
CallBuildFetchBody ==
    /\ fn_in # None /\ fn_out = None
    /\ fn_out' = Some(build_fetch_body(Val(fn_in)[1], Val(fn_in)[2], Val(fn_in)[3]))
    /\ UNCHANGED <<fn_in, call, posts, batch_vars, workers>>

Parse ==
    /\ call.pc = "parse"
    /\ call' = DoParse(call)
    /\ UNCHANGED <<fn_vars, workers, posts, batch_vars>>

Build ==
    /\ call.pc = "build"
    /\ call' = DoBuild(call)
    /\ UNCHANGED <<fn_vars, workers, posts, batch_vars>>

Post ==
    /\ call.pc = "post"
    /\ \E out \in Outcomes(call.embed_url) :
        /\ call' = DoPost(call, out)
        /\ posts' = PostLog(posts, call, out)
    /\ UNCHANGED <<fn_vars, workers, batch_vars>>

Token ==
    /\ call.pc = "token"
    /\ call' = DoToken(call)
    /\ UNCHANGED <<fn_vars, workers, posts, batch_vars>>

Lb ==
    /\ call.pc = "lb"
    /\ call' = DoLb(call)
    /\ UNCHANGED <<fn_vars, workers, posts, batch_vars>>

\* events = await get_live_events(context)
GetLiveEvents ==
    /\ batch_pc = "start"
    /\ \E n \in 0..MaxEvents : events' = EventList(n)
    /\ idx' = 1
    /\ batch_pc' = "loop"
    /\ UNCHANGED <<fn_vars, workers, call, posts, embed_url, results>>

\* embed_url = await get_embed_url(context, href), and the branch on it
GetEmbedUrl ==
    /\ batch_pc = "loop" /\ idx <= Len(events)
    /\ \E u \in {None} \cup {Some(x) : x \in BatchUrls} :
        /\ embed_url' = u
        /\ IF u = None
           THEN /\ results' = Append(results, NoEmbedRecord(events[idx]))
                /\ idx' = idx + 1
                /\ UNCHANGED <<call, batch_pc>>
           ELSE /\ call' = NewCall(Val(u))
                /\ batch_pc' = "resolving"
                /\ UNCHANGED <<results, idx>>
    /\ UNCHANGED <<fn_vars, workers, posts, events>>

\* stream_data = get_stream_url(embed_url) returned: results.append({...})
AppendResult ==
    /\ batch_pc = "resolving" /\ call.pc = "returned"
    /\ results' = Append(results,
                         StreamRecord(events[idx], Val(embed_url), Val(call.ret)))
    /\ idx' = idx + 1
    /\ batch_pc' = "loop"
    /\ call' = IdleCall
    /\ UNCHANGED <<fn_vars, workers, posts, events, embed_url>>

\* get_stream_url raised: nothing in scrape_all_events catches it, the
\* exception leaves the loop and the function, and results is not returned
Propagate ==
    /\ batch_pc = "resolving" /\ call.pc = "raised"
    /\ batch_pc' = "aborted"
    /\ UNCHANGED <<fn_vars, workers, call, posts, events, idx, embed_url, results>>

\* the loop is over: await browser.close(); return results
Finish ==
    /\ batch_pc = "loop" /\ idx > Len(events)
    /\ batch_pc' = "returned"
    /\ UNCHANGED <<fn_vars, workers, call, posts, events, idx, embed_url, results>>

\* the steps of worker w's call of get_stream_url
ThreadParse(w) ==
    /\ workers[w].pc = "parse"
    /\ workers' = [workers EXCEPT ![w] = DoParse(workers[w])]
    /\ UNCHANGED <<fn_vars, call, posts, batch_vars>>

ThreadBuild(w) ==
    /\ workers[w].pc = "build"
    /\ workers' = [workers EXCEPT ![w] = DoBuild(workers[w])]
    /\ UNCHANGED <<fn_vars, call, posts, batch_vars>>

ThreadPost(w) ==
    /\ workers[w].pc = "post"
    /\ \E out \in WorkerOutcomes :
        /\ workers' = [workers EXCEPT ![w] = DoPost(workers[w], out)]
        /\ posts' = PostLog(posts, workers[w], out)
    /\ UNCHANGED <<fn_vars, call, batch_vars>>

ThreadToken(w) ==
    /\ workers[w].pc = "token"
    /\ workers' = [workers EXCEPT ![w] = TokenStep(workers, w)]
    /\ UNCHANGED <<fn_vars, call, posts, batch_vars>>

ThreadLb(w) ==
    /\ workers[w].pc = "lb"
    /\ workers' = [workers EXCEPT ![w] = DoLb(workers[w])]
    /\ UNCHANGED <<fn_vars, call, posts, batch_vars>>

(***************************************************************************)
(* Specifications.                                                         *)
(***************************************************************************)
NoBatch ==
    /\ batch_pc = "off" /\ events = <<>> /\ idx = 0
    /\ embed_url = None /\ results = <<>>

\* scrape_all_events, from its first statement
Init ==
    /\ fn_in = None /\ fn_out = None
    /\ call = IdleCall /\ posts = <<>>
    /\ batch_pc = "start" /\ events = <<>> /\ idx = 0
    /\ embed_url = None /\ results = <<>>
    /\ workers = <<>>

Next ==
    \/ GetLiveEvents \/ GetEmbedUrl
    \/ Parse \/ Build \/ Post \/ Token \/ Lb
    \/ AppendResult \/ Propagate \/ Finish

Spec == Init /\ [][Next]_vars

\* one call of get_stream_url on any embed URL
InitResolve ==
    /\ fn_in = None /\ fn_out = None
    /\ \E u \in BroadUrls \cup {ProbeUrl, OverflowUrl} : call = NewCall(u)
    /\ posts = <<>>
    /\ NoBatch
    /\ workers = <<>>

NextResolve == Parse \/ Build \/ Post \/ Token \/ Lb

SpecResolve == InitResolve /\ [][NextResolve]_vars

\* one call of build_fetch_body on any three field values
InitEncode ==
    /\ \E server \in FieldPool, slug \in FieldPool, stream_num \in FieldPool :
        fn_in = Some(<<server, slug, stream_num>>)
    /\ fn_out = None
    /\ call = IdleCall /\ posts = <<>>
    /\ NoBatch
    /\ workers = <<>>

NextEncode == CallBuildFetchBody

SpecEncode == InitEncode /\ [][NextEncode]_vars

\* MaxWorkers calls of get_stream_url, their steps interleaved in any order
InitConcurrent ==
    /\ fn_in = None /\ fn_out = None
    /\ call = IdleCall /\ posts = <<>>
    /\ NoBatch
    /\ workers \in [1..MaxWorkers -> {NewCall(u) : u \in WorkerUrls}]

NextConcurrent ==
    \/ \E w \in DOMAIN workers : ThreadParse(w)
    \/ \E w \in DOMAIN workers : ThreadBuild(w)
    \/ \E w \in DOMAIN workers : ThreadPost(w)
    \/ \E w \in DOMAIN workers : ThreadToken(w)
    \/ \E w \in DOMAIN workers : ThreadLb(w)

SpecConcurrent == InitConcurrent /\ [][NextConcurrent]_vars

(***************************************************************************)
(* Properties.                                                             *)
(***************************************************************************)
\* a reader of the wire format: the field with the given tag byte at pos,
\* as [val, next], or None when the bytes at pos are no such field
ReadField(b, pos, tag) ==
    IF pos + 1 <= Len(b) /\ b[pos] = tag /\ pos + 1 + b[pos + 1] <= Len(b)
    THEN Some([val |-> SubSeq(b, pos + 2, pos + 1 + b[pos + 1]),
               next |-> pos + 2 + b[pos + 1]])
    ELSE None

\* three consecutive fields tagged 0x0A, 0x12, 0x1A that make up all of b,
\* as strings; None when b does not read that way
ReadMessage(b) ==
    LET f1 == ReadField(b, 1, 10)
        f2 == IF f1 = None THEN None ELSE ReadField(b, Val(f1).next, 18)
        f3 == IF f2 = None THEN None ELSE ReadField(b, Val(f2).next, 26)
    IN  IF f3 = None \/ Val(f3).next # Len(b) + 1 THEN None
        ELSE Some(<<Utf8Decode(Val(f1).val), Utf8Decode(Val(f2).val),
                    Utf8Decode(Val(f3).val)>>)

ByteLen(value) == Len(Utf8Encode(value))
FitsByte(t) == \A i \in 1..3 : ByteLen(t[i]) <= MaxByte

\* C1: when each of the three values encodes to at most 255 bytes,
\* build_fetch_body returns a message, and reading it as three consecutive
\* tag / length / value fields tagged 1, 2, 3 consumes all of it and gives
\* back the three strings.
C1_RoundTrip ==
    (fn_out # None /\ FitsByte(Val(fn_in)))
        => /\ ~Val(fn_out).raised
           /\ ReadMessage(Val(fn_out).val) = fn_in

\* C1's case: a message was built from a slug of exactly 255 bytes that holds
\* two-byte characters
C1_Witness ==
    /\ fn_out # None /\ ~Val(fn_out).raised
    /\ ByteLen(Val(fn_in)[2]) = MaxByte
    /\ Len(Val(fn_in)[2]) < MaxByte
    /\ Val(fn_in)[1] # <<>> /\ Val(fn_in)[3] # <<>>

\* the offset of field i's length byte in a message built from t
LenByteAt(t, i) ==
    IF i = 1 THEN 2
    ELSE IF i = 2 THEN 4 + ByteLen(t[1])
    ELSE 6 + ByteLen(t[1]) + ByteLen(t[2])

\* C2: build_fetch_body raises, and returns no message, exactly when one of
\* the values is longer than 255 UTF-8 bytes; when it returns, a value of
\* exactly 255 bytes has the length byte 255.
C2_Overflow ==
    fn_out # None =>
        LET t == Val(fn_in)
            out == Val(fn_out)
        IN  /\ out.raised <=> ~FitsByte(t)
            /\ out.raised => out.val = <<>>
            /\ ~out.raised =>
                  \A i \in 1..3 : ByteLen(t[i]) = MaxByte
                                    => out.val[LenByteAt(t, i)] = MaxByte

\* C2's case: the call raised on a slug of 256 bytes, the other two values
\* being short
C2_Witness ==
    /\ fn_out # None /\ Val(fn_out).raised
    /\ ByteLen(Val(fn_in)[2]) = MaxByte + 1
    /\ ByteLen(Val(fn_in)[1]) <= MaxShort /\ ByteLen(Val(fn_in)[3]) <= MaxShort

\* the least index j >= from with s[j] = c, or 0; the greatest, or 0
FirstIndex(s, c, from) ==
    LET at == {j \in from..Len(s) : s[j] = c}
    IN  IF at = {} THEN 0 ELSE CHOOSE j \in at : \A k \in at : j <= k
LastIndex(s, c) ==
    LET at == {j \in 1..Len(s) : s[j] = c}
    IN  IF at = {} THEN 0 ELSE CHOOSE j \in at : \A k \in at : k <= j

IsLetter(c) == (c >= 97 /\ c <= 122) \/ (c >= 65 /\ c <= 90)
IsAsciiDigit(c) == c >= 48 /\ c <= 57

\* the shape scheme://host/embed/<server>/<slug>/<digits>, read off the URL
\* from its separators: the scheme ends at the first ':', the host at the
\* next '/', the server at the '/' after "/embed/", and the digits are the
\* last path segment.  None when the URL is not of the shape.
ShapeOf(url) ==
    LET n == Len(url)
        p1 == FirstIndex(url, 58, 1)
        p2 == FirstIndex(url, 47, p1 + 3)
        p3 == FirstIndex(url, 47, p2 + 7)
        p4 == LastIndex(url, 47)
    IN  IF /\ p1 > 1 /\ \A i \in 1..(p1 - 1) : IsLetter(url[i])
           /\ p1 + 2 <= n /\ url[p1 + 1] = 47 /\ url[p1 + 2] = 47
           /\ p2 > p1 + 3
           /\ p2 + 6 <= n
           /\ SubSeq(url, p2, p2 + 6) = <<47, 101, 109, 98, 101, 100, 47>>
           /\ p3 > p2 + 7
           /\ p4 > p3 + 1
           /\ p4 < n /\ \A i \in (p4 + 1)..n : IsAsciiDigit(url[i])
        THEN Some([scheme |-> SubSeq(url, 1, p1 - 1),
                   host |-> SubSeq(url, p1 + 3, p2 - 1),
                   server |-> SubSeq(url, p2 + 7, p3 - 1),
                   slug |-> SubSeq(url, p3 + 1, p4 - 1),
                   digits |-> SubSeq(url, p4 + 1, n)])
        ELSE None

Parsed == call.pc \notin {"idle", "parse"}
HasChar(s, c) == \E i \in 1..Len(s) : s[i] = c

\* C3 as stated: for every URL of the shape, whatever its scheme and slug,
\* parse_embed_url returns (server, slug, digits).
C3_AnyScheme ==
    (Parsed /\ ShapeOf(call.embed_url) # None)
        => LET sh == Val(ShapeOf(call.embed_url))
           IN  call.parsed = Some(<<sh.server, sh.slug, sh.digits>>)

\* C3, amended: for every URL of the shape whose scheme is http or https and
\* whose slug holds no line feed, parse_embed_url returns exactly (server,
\* slug, digits): the first path segment after /embed/, everything between
\* it and the last segment (slashes and all-digit segments included), and
\* the last segment.
C3_ParserCapture ==
    (Parsed /\ ShapeOf(call.embed_url) # None)
        => LET sh == Val(ShapeOf(call.embed_url))
           IN  (/\ sh.scheme \in {<<104, 116, 116, 112>>, <<104, 116, 116, 112, 115>>}
                /\ ~HasChar(sh.slug, 10))
                 => call.parsed = Some(<<sh.server, sh.slug, sh.digits>>)

\* C3's case: the parser captured the slug a/1 (a slash and an all-digit
\* segment inside it) of http://h/embed/a/a/1/1
C3_Witness ==
    /\ Parsed
    /\ call.parsed = Some(<<<<97>>, <<97, 47, 49>>, <<49>>>>)

\* C4: a call on a URL that is not of the shape returns {} without building
\* a request body and without a POST.
C4_Rejection ==
    (Parsed /\ ShapeOf(call.embed_url) = None)
        => /\ call.parsed = None
           /\ call.pc = "returned" /\ call.ret = Some(EmptyDict)
           /\ call.body = <<>> /\ posts = <<>>

NoToken(goat) == goat = None \/ goat = Some(<<>>)
\* the exchange of the call ended in a response with this class of status
Answered(r, lo, hi) ==
    /\ r.resp # None /\ Val(r.resp).exc = None
    /\ Val(r.resp).status >= lo /\ Val(r.resp).status <= hi

\* s holds t as a substring
HasSub(s, t) == \E i \in 1..(Len(s) - Len(t) + 1) : SubSeq(s, i, i + Len(t) - 1) = t

C6_TransportFailure ==
    (call.pc = "returned" /\ call.resp # None /\ ~Answered(call, 200, 299))
        => /\ Val(call.ret).error # None /\ Val(call.ret).m3u8 = None
           /\ call.examined = {}

\* the reference of url parses and encodes; the message it encodes to
Encodable(url) ==
    /\ parse_embed_url(url) # None
    /\ LET t == Val(parse_embed_url(url))
       IN  ~build_fetch_body(t[1], t[2], t[3]).raised
Payload(url) ==
    LET t == Val(parse_embed_url(url)) IN build_fetch_body(t[1], t[2], t[3]).val

\* the embed URLs whose reference parsed and encoded and whose call reached
\* its exchange, in the order of the events: those of the records appended
\* so far, and that of the call in progress once it is past its POST
ExchangedUrls ==
    LET IsExchanged(rec) == rec.embed_url # None /\ Encodable(Val(rec.embed_url))
        done == SelectSeq(results, IsExchanged)
        cur == IF /\ batch_pc = "resolving"
                  /\ call.pc \in {"token", "lb", "returned"}
                  /\ Encodable(call.embed_url)
               THEN <<call.embed_url>> ELSE <<>>
    IN  [i \in 1..Len(done) |-> Val(done[i].embed_url)] \o cur

\* the number of events so far for which get_embed_url found an embed URL
FoundCount ==
    Cardinality({i \in 1..Len(results) : results[i].embed_url # None})
    + (IF batch_pc \in {"resolving", "aborted"} THEN 1 ELSE 0)

FirstLb(s) ==
    LET starts == {i \in 1..(Len(s) - 2) :
                     s[i] = 108 /\ s[i + 1] = 98 /\ IsAsciiDigit(s[i + 2])}
        i == CHOOSE x \in starts : \A y \in starts : x <= y
        ends == {j \in (i + 2)..Len(s) : \A k \in (i + 2)..j : IsAsciiDigit(s[k])}
        j == CHOOSE x \in ends : \A y \in ends : y <= x
    IN  IF starts = {} THEN <<108, 98, 50>> ELSE SubSeq(s, i, j)

\* C8: a call whose exchange gave a token returns, with no error, the
\* load-balancer identifier that is the leftmost lb<digits> of the decoded
\* body with all its consecutive digits, or lb2 when the body has none.
C8_LoadBalancer ==
    (/\ call.pc = "returned" /\ call.resp # None
     /\ \/ Val(call.ret).goat # None
        \/ Answered(call, 200, 299) /\ ~NoToken(Val(call.resp).goat))
        => /\ Val(call.ret).lb = Some(FirstLb(Utf8Decode(Val(call.resp).content)))
           /\ Val(call.ret).error = None
           /\ Val(call.ret).m3u8 # None

\* C8's case: a call returned lb1 out of the body lb1lb2, which holds two
\* matches
C8_Witness ==
    /\ call.pc = "returned" /\ call.resp # None
    /\ Val(call.resp).content = <<108, 98, 49, 108, 98, 50>>
    /\ Val(call.ret).lb = Some(<<108, 98, 49>>)

\* C9: the m3u8 a call returns is 'https://' + lb + '.strmd.top/secure/' +
\* token + '/' + server + '/stream/' + slug + '/' + stream_num +
\* '/playlist.m3u8', with the token of the response's goat header, the lb
\* the call returns, and the three fields of the reference parsed from the
\* call's URL.
C9_Synthesis ==
    (call.pc = "returned" /\ Val(call.ret).m3u8 # None)
        => Val(Val(call.ret).m3u8) =
                 <<104, 116, 116, 112, 115, 58, 47, 47>>
                 \o Val(Val(call.ret).lb)
                 \o <<46>> \o <<115, 116, 114, 109, 100, 46, 116, 111, 112>>
                 \o <<47, 115, 101, 99, 117, 114, 101, 47>>
                 \o Val(Val(call.resp).goat)
                 \o <<47>> \o Val(call.parsed)[1]
                 \o <<47, 115, 116, 114, 101, 97, 109, 47>>
                 \o Val(call.parsed)[2]
                 \o <<47>> \o Val(call.parsed)[3]
                 \o <<47, 112, 108, 97, 121, 108, 105, 115, 116, 46, 109, 51, 117, 56>>

\* C9's case: a call returned an m3u8 for a reference whose slug holds a
\* slash, with an lb found in the body
C9_Witness ==
    /\ call.pc = "returned" /\ Val(call.ret).m3u8 # None
    /\ HasChar(Val(call.parsed)[2], 47)
    /\ Val(call.ret).lb = Some(<<108, 98, 49>>)

\* C10: scrape_all_events is never left by an exception, and when it
\* returns, results holds one record per event, in the order of the events.
C10_BatchIsolation ==
    /\ batch_pc # "aborted"
    /\ batch_pc = "returned"
        => /\ Len(results) = Len(events)
           /\ \A i \in 1..Len(results) : results[i].href = events[i].href

\* C11: no failure is suppressed: what a call of get_stream_url returns
\* carries a playlist URL or an error, never neither and never both, and
\* every record of results whose stream is null has a non-null error.
C11_NoFailureSuppressed ==
    /\ call.pc = "returned"
        => (Val(call.ret).m3u8 # None) # (Val(call.ret).error # None)
    /\ \A i \in 1..Len(results) :
        results[i].stream = None => results[i].error # None

\* the segment the wire layout prescribes for field number n and value v:
\* the tag byte, the length byte, the UTF-8 bytes of v
Segment(n, v) == <<n * 8 + 2, ByteLen(v)>> \o Utf8Encode(v)

\* C12: a message build_fetch_body returns is the segment of the server
\* (tag 0x0A), then that of the slug (tag 0x12), then that of the stream
\* index (tag 0x1A), each one tag byte, one length byte equal to the UTF-8
\* length of the value, and the UTF-8 bytes of the value, with nothing
\* before, between or after them: the message is 6 + the three value
\* lengths long, and the segment of an empty value is its two bytes.
C12_WireLayout ==
    (fn_out # None /\ ~Val(fn_out).raised) =>
        LET t == Val(fn_in)
            m == Val(fn_out).val
            l1 == ByteLen(t[1])
            l2 == ByteLen(t[2])
            l3 == ByteLen(t[3])
        IN  /\ Len(m) = 6 + l1 + l2 + l3
            /\ m[1] = 10 /\ m[2] = l1
            /\ SubSeq(m, 3, 2 + l1) = Utf8Encode(t[1])
            /\ m[3 + l1] = 18 /\ m[4 + l1] = l2
            /\ SubSeq(m, 5 + l1, 4 + l1 + l2) = Utf8Encode(t[2])
            /\ m[5 + l1 + l2] = 26 /\ m[6 + l1 + l2] = l3
            /\ SubSeq(m, 7 + l1 + l2, 6 + l1 + l2 + l3) = Utf8Encode(t[3])
            /\ m = Segment(1, t[1]) \o Segment(2, t[2]) \o Segment(3, t[3])
            /\ \A i \in 1..3 : t[i] = <<>> => Segment(i, t[i]) = <<i * 8 + 2, 0>>

\* C12's case: a message was built from an empty server, a slug of one
\* two-byte character and a stream index of two one-byte characters
C12_Witness ==
    /\ fn_out # None /\ ~Val(fn_out).raised
    /\ Val(fn_in) = <<<<>>, <<233>>, <<97, 97>>>>
    /\ Val(fn_out).val = <<10, 0, 18, 2, 195, 169, 26, 2, 97, 97>>

\* get_stream_url run alone, from its first statement to its end, on the
\* embed URL url with the exchange ending in resp
Alone(url, resp) ==
    LET a == DoParse(NewCall(url))
        b == DoBuild(a)
        c == DoPost(b, Val(resp))
        d == DoToken(c)
    IN  IF a.pc # "build" THEN a
        ELSE IF b.pc # "post" THEN b
        ELSE IF c.pc # "token" THEN c
        ELSE IF d.pc # "lb" THEN d
        ELSE DoLb(d)

Ended(r) == r.pc \in {"returned", "raised"}

\* C13: with the steps of the workers interleaved in any order, a worker
\* that has ended has ended exactly as its call would have run alone on its
\* embed URL and its response: the same result or exception, the same
\* token, load balancer and fields; a playlist URL it returns is made of
\* its own response and its own embed URL; and the requests sent are one
\* per worker that made its exchange, each with that worker's body.
C13_Independence ==
    /\ \A w \in DOMAIN workers :
        Ended(workers[w]) =>
            /\ workers[w] = Alone(workers[w].embed_url, workers[w].resp)
            /\ (workers[w].ret # None /\ Val(workers[w].ret).m3u8 # None)
                => Val(Val(workers[w].ret).m3u8) =
                     M3u8(LbServer(Utf8Decode(Val(workers[w].resp).content)),
                          Val(Val(workers[w].resp).goat),
                          Val(parse_embed_url(workers[w].embed_url))[1],
                          Val(parse_embed_url(workers[w].embed_url))[2],
                          Val(parse_embed_url(workers[w].embed_url))[3])
    /\ Len(posts) = Cardinality({w \in DOMAIN workers : workers[w].resp # None})
    /\ \A w \in DOMAIN workers :
        workers[w].resp # None
            => \E i \in 1..Len(posts) : posts[i] = PostOf(workers[w])

\* C13's case: two workers on different embed URLs both returned a playlist
\* URL, worker 1 with the token t and lb1, worker 2 with the token u and
\* the fallback, and worker 2 made its exchange before worker 1
C13_Witness ==
    /\ DOMAIN workers # {}
    /\ workers[1].pc = "returned" /\ workers[2].pc = "returned"
    /\ workers[1].embed_url # workers[2].embed_url
    /\ Val(workers[1].ret).m3u8 # None /\ Val(workers[2].ret).m3u8 # None
    /\ Val(workers[1].ret).goat = Some(<<116>>)
    /\ Val(workers[2].ret).goat = Some(<<117>>)
    /\ Val(workers[1].ret).lb = Some(<<108, 98, 49>>)
    /\ Val(workers[2].ret).lb = Some(LbFallback)
    /\ posts[1].referer = workers[2].embed_url

====
